---- MODULE Spec2Model ----
(***************************************************************************)
(* Model of the Odia record-of-rights extractor (src/extractor.py).        *)
(*                                                                         *)
(* A Python str is a sequence of characters; a character is a TLA+ string. *)
(* ASCII characters stand for themselves ("a", "7", ":", " ", "\n").       *)
(* Code points of the Odia block U+0B00-U+0B7F are named after their       *)
(* Unicode names: a consonant letter is "KA", "KHA", ...; an independent   *)
(* vowel letter is "vA", "vAA", ...; a dependent vowel sign is "sAA",      *)
(* "sI", ...; the signs are "VIRAMA", "ANUSVARA", "VISARGA", "NUKTA"; the  *)
(* digit U+0B67 is "oONE". Positions are 1-based here and 0-based in the   *)
(* source: position i of the model is index i-1 of the source.             *)
(***************************************************************************)
EXTENDS Integers, Sequences, FiniteSets, TLC

(***************************************************************************)
(* Characters                                                              *)
(***************************************************************************)
\* self.consonants
consonants ==
  [ KA |-> <<"k">>, KHA |-> <<"k","h">>, GA |-> <<"g">>, GHA |-> <<"g","h">>,
    NGA |-> <<"n","g">>,
    CA |-> <<"c","h">>, CHA |-> <<"c","h","h">>, JA |-> <<"j">>,
    JHA |-> <<"j","h">>, NYA |-> <<"n","y">>,
    TTA |-> <<"t">>, TTHA |-> <<"t","h">>, DDA |-> <<"d">>, DDHA |-> <<"d","h">>,
    NNA |-> <<"n">>,
    TA |-> <<"t">>, THA |-> <<"t","h">>, DA |-> <<"d">>, DHA |-> <<"d","h">>,
    NA |-> <<"n">>,
    PA |-> <<"p">>, PHA |-> <<"p","h">>, BA |-> <<"b">>, BHA |-> <<"b","h">>,
    MA |-> <<"m">>,
    YA |-> <<"y">>, RA |-> <<"r">>, LA |-> <<"l">>, SHA |-> <<"s","h">>,
    SSA |-> <<"s","h">>,
    SA |-> <<"s">>, HA |-> <<"h">>, LLA |-> <<"l">> ]

\* self.independent_vowels
independent_vowels ==
  [ vA |-> <<"a">>, vAA |-> <<"a","a">>, vI |-> <<"i">>, vII |-> <<"i","i">>,
    vU |-> <<"u">>, vUU |-> <<"u","u">>, vR |-> <<"r","u">>, vE |-> <<"e">>,
    vAI |-> <<"a","i">>, vO |-> <<"o">>, vAU |-> <<"a","u">> ]

\* self.vowel_signs
vowel_signs ==
  [ sAA |-> <<"a">>, sI |-> <<"i">>, sII |-> <<"i">>, sU |-> <<"u">>,
    sUU |-> <<"u">>, sR |-> <<"r","u">>, sE |-> <<"e">>, sAI |-> <<"a","i">>,
    sO |-> <<"o">>, sAU |-> <<"a","u">> ]

\* self.diacritics; the value "_virama" marks the sign that emits nothing
diacritics ==
  [ VIRAMA |-> <<"_virama">>, ANUSVARA |-> <<"n">>, VISARGA |-> <<"h">> ]

\* Code points of the block that no table maps: the letters YYA (U+0B5F) and
\* VA (U+0B35), the sign NUKTA (U+0B3C) and the digit ONE (U+0B67).
UnmappedOdia == {"YYA", "VA", "NUKTA", "oONE"}

\* self._odia_re: [଀-୿]
OdiaRange ==
  DOMAIN consonants \cup DOMAIN independent_vowels \cup DOMAIN vowel_signs
    \cup DOMAIN diacritics \cup UnmappedOdia

AsciiDigits == {"0","1","2","3","4","5","6","7","8","9"}

\* \d of a str pattern: the decimal digits of every script
UnicodeDigits == AsciiDigits \cup {"oONE"}

\* \s, and what str.strip() and str.split() take for whitespace
Whitespace == {" ", "\n", "\t"}

LowerLetters ==
  <<"a","b","c","d","e","f","g","h","i","j","k","l","m",
    "n","o","p","q","r","s","t","u","v","w","x","y","z">>

UpperLetters ==
  <<"A","B","C","D","E","F","G","H","I","J","K","L","M",
    "N","O","P","Q","R","S","T","U","V","W","X","Y","Z">>

\* str.upper() and str.lower() of one character
Upper(c) ==
  IF \E k \in DOMAIN LowerLetters : LowerLetters[k] = c
    THEN UpperLetters[CHOOSE k \in DOMAIN LowerLetters : LowerLetters[k] = c]
    ELSE c

Lower(c) ==
  IF \E k \in DOMAIN UpperLetters : UpperLetters[k] = c
    THEN LowerLetters[CHOOSE k \in DOMAIN UpperLetters : UpperLetters[k] = c]
    ELSE c

(***************************************************************************)
(* str methods                                                             *)
(***************************************************************************)
RECURSIVE Concat(_)
\* "".join(parts)
Concat(parts) ==
  IF parts = <<>> THEN <<>> ELSE Head(parts) \o Concat(Tail(parts))

RECURSIVE Join(_, _)
\* sep.join(parts)
Join(sep, parts) ==
  IF parts = <<>> THEN <<>>
  ELSE IF Len(parts) = 1 THEN parts[1]
  ELSE parts[1] \o sep \o Join(sep, Tail(parts))

RECURSIVE LStrip(_)
LStrip(s) ==
  IF s # <<>> /\ s[1] \in Whitespace THEN LStrip(Tail(s)) ELSE s

RECURSIVE RStrip(_)
RStrip(s) ==
  IF s # <<>> /\ s[Len(s)] \in Whitespace
    THEN RStrip(SubSeq(s, 1, Len(s) - 1)) ELSE s

\* s.strip()
Strip(s) == RStrip(LStrip(s))

\* whether sub occurs in s at position i
StartsAt(s, sub, i) ==
  /\ i >= 1
  /\ i + Len(sub) - 1 <= Len(s)
  /\ \A k \in 1..Len(sub) : s[i + k - 1] = sub[k]

\* sub in s
Contains(s, sub) == \E i \in 1..(Len(s) + 1) : StartsAt(s, sub, i)

RECURSIVE Find(_, _, _)
\* s.find(sub, start): the first position >= start where sub occurs, 0 if none
\* (the source's -1)
Find(s, sub, start) ==
  IF start + Len(sub) - 1 > Len(s) THEN 0
  ELSE IF StartsAt(s, sub, start) THEN start
  ELSE Find(s, sub, start + 1)

RECURSIVE Replace(_, _, _)
\* s.replace(old, new), old non-empty: non-overlapping, left to right
Replace(s, old, new) ==
  IF s = <<>> THEN <<>>
  ELSE IF StartsAt(s, old, 1)
    THEN new \o Replace(SubSeq(s, Len(old) + 1, Len(s)), old, new)
  ELSE <<s[1]>> \o Replace(Tail(s), old, new)

RECURSIVE SplitChar(_, _, _)
\* s.split(c) for a one-character separator; cur is the part being read
SplitChar(s, c, cur) ==
  IF s = <<>> THEN <<cur>>
  ELSE IF s[1] = c THEN <<cur>> \o SplitChar(Tail(s), c, <<>>)
  ELSE SplitChar(Tail(s), c, Append(cur, s[1]))

RECURSIVE SplitWs(_, _)
\* s.split(): the maximal runs of non-whitespace
SplitWs(s, cur) ==
  IF s = <<>> THEN (IF cur = <<>> THEN <<>> ELSE <<cur>>)
  ELSE IF s[1] \in Whitespace
    THEN (IF cur = <<>> THEN <<>> ELSE <<cur>>) \o SplitWs(Tail(s), <<>>)
  ELSE SplitWs(Tail(s), Append(cur, s[1]))

RECURSIVE SplitLines(_, _)
\* s.splitlines(): the text between line breaks, no empty last line
SplitLines(s, cur) ==
  IF s = <<>> THEN (IF cur = <<>> THEN <<>> ELSE <<cur>>)
  ELSE IF s[1] = "\n" THEN <<cur>> \o SplitLines(Tail(s), <<>>)
  ELSE SplitLines(Tail(s), Append(cur, s[1]))

\* s.count(c) for one character
Count(s, c) == Cardinality({i \in 1..Len(s) : s[i] = c})

\* w.capitalize(): the first character upper-cased, the rest lower-cased
Capitalize(w) ==
  IF w = <<>> THEN <<>>
  ELSE <<Upper(w[1])>> \o [k \in 1..(Len(w) - 1) |-> Lower(w[k + 1])]

RECURSIVE CapitalizeAll(_)
\* [w.capitalize() for w in words]
CapitalizeAll(words) ==
  IF words = <<>> THEN <<>>
  ELSE <<Capitalize(Head(words))>> \o CapitalizeAll(Tail(words))

RECURSIVE CollapseWs(_)
\* re.sub(r"\s+", " ", s)
CollapseWs(s) ==
  IF s = <<>> THEN <<>>
  ELSE IF s[1] \in Whitespace THEN <<" ">> \o CollapseWs(LStrip(s))
  ELSE <<s[1]>> \o CollapseWs(Tail(s))

\* self._odia_re.search(s)
HasOdia(s) == \E i \in 1..Len(s) : s[i] \in OdiaRange

(***************************************************************************)
(* Transliteration                                                         *)
(***************************************************************************)
\* ConsonantBranch with the vowel sign left for the next iteration
ConsonantBranchSignNotConsumed(s, i) ==
  LET base == consonants[s[i]]
      nxt == IF i + 1 <= Len(s) THEN s[i + 1] ELSE ""
  IN IF nxt = "VIRAMA" THEN [out |-> base, adv |-> 2]
     ELSE IF nxt \in DOMAIN vowel_signs
       THEN [out |-> base \o vowel_signs[nxt], adv |-> 1]
     ELSE [out |-> base \o <<"a">>, adv |-> 1]

\* the consonant branch of the scan at position i of s: what it emits and how
\* many characters it consumes
ConsonantBranch(s, i) ==
  LET base == consonants[s[i]]
      nxt == IF i + 1 <= Len(s) THEN s[i + 1] ELSE ""
  IN IF nxt = "VIRAMA" THEN [out |-> base, adv |-> 2]
     ELSE IF nxt \in DOMAIN vowel_signs
       THEN [out |-> base \o vowel_signs[nxt], adv |-> 2]
     ELSE [out |-> base \o <<"a">>, adv |-> 1]

\* one iteration of the scan loop at position i of s
ScanStep(s, i) ==
  LET ch == s[i] IN
  IF ch \in DOMAIN independent_vowels
    THEN [out |-> independent_vowels[ch], adv |-> 1]
  ELSE IF ch \in DOMAIN consonants THEN ConsonantBranch(s, i)
  ELSE IF ch \in DOMAIN vowel_signs THEN [out |-> vowel_signs[ch], adv |-> 1]
  ELSE IF ch \in DOMAIN diacritics
    THEN [out |-> IF diacritics[ch] # <<"_virama">> THEN diacritics[ch] ELSE <<>>,
          adv |-> 1]
  ELSE [out |-> <<ch>>, adv |-> 1]

RECURSIVE Scan(_, _)
\* the scan loop from position i: "".join(out)
Scan(s, i) ==
  IF i > Len(s) THEN <<>>
  ELSE LET st == ScanStep(s, i) IN st.out \o Scan(s, i + st.adv)

\* the cleanup after the scan
PostProcess(translit) ==
  LET t1 == Strip(CollapseWs(translit))
      t2 == Replace(Replace(t1, <<"i","i">>, <<"i">>), <<"u","u">>, <<"u">>)
  IN Join(<<" ">>, CapitalizeAll(SplitWs(t2, <<>>)))

odia_to_latin(text) ==
  IF text = <<>> \/ ~HasOdia(text) THEN text
  ELSE PostProcess(Scan(Strip(text), 1))

(***************************************************************************)
(* Regular expressions (the subset of re the source's patterns use).       *)
(* A pattern is a tree of nodes; the matcher is the backtracking matcher   *)
(* of re: alternatives are tried left to right, a greedy repetition tries  *)
(* one more iteration before it tries to stop and a lazy one the reverse,  *)
(* and the first way to match the whole pattern wins. re.IGNORECASE        *)
(* changes nothing for the source's patterns, whose literals and classes   *)
(* hold no cased letter; re.DOTALL makes "." match every character.        *)
(***************************************************************************)
Lit(cs) == [t |-> "lit", cs |-> cs]
In(S) == [t |-> "in", S |-> S]
NotIn(S) == [t |-> "notin", S |-> S]
AnyChar == [t |-> "any"]
Cat(rs) == [t |-> "cat", rs |-> rs]
Alt(a, b) == [t |-> "alt", a |-> a, b |-> b]
\* r{min,max}; unbounded when inf
Rep(r, min, max, inf, lazy) ==
  [t |-> "rep", r |-> r, min |-> min, max |-> max, inf |-> inf, lazy |-> lazy]
Star(r) == Rep(r, 0, 0, TRUE, FALSE)
Plus(r) == Rep(r, 1, 0, TRUE, FALSE)
Opt(r) == Rep(r, 0, 1, FALSE, FALSE)
LazyStar(r) == Rep(r, 0, 0, TRUE, TRUE)
\* the capturing group number n
Grp(n, r) == [t |-> "grp", n |-> n, r |-> r]

NoMatch == [ok |-> FALSE]

RECURSIVE MatchSeq(_, _, _, _)
\* Match the nodes rs one after the other from position i of s; caps holds the
\* groups captured so far, each <<first, last + 1>> or <<>> when it took no part.
\* [ok, end, caps] of the first way to match, or NoMatch.
MatchSeq(rs, s, i, caps) ==
  IF rs = <<>> THEN [ok |-> TRUE, end |-> i, caps |-> caps]
  ELSE
    LET r == Head(rs)
        rest == Tail(rs)
    IN CASE r.t = "lit" ->
              IF StartsAt(s, r.cs, i)
                THEN MatchSeq(rest, s, i + Len(r.cs), caps) ELSE NoMatch
         [] r.t = "in" ->
              IF i <= Len(s) /\ s[i] \in r.S
                THEN MatchSeq(rest, s, i + 1, caps) ELSE NoMatch
         [] r.t = "notin" ->
              IF i <= Len(s) /\ s[i] \notin r.S
                THEN MatchSeq(rest, s, i + 1, caps) ELSE NoMatch
         [] r.t = "any" ->
              IF i <= Len(s) THEN MatchSeq(rest, s, i + 1, caps) ELSE NoMatch
         [] r.t = "cat" -> MatchSeq(r.rs \o rest, s, i, caps)
         [] r.t = "alt" ->
              LET first == MatchSeq(<<r.a>> \o rest, s, i, caps)
              IN IF first.ok THEN first
                 ELSE MatchSeq(<<r.b>> \o rest, s, i, caps)
         [] r.t = "rep" ->
              LET less == Rep(r.r, IF r.min > 0 THEN r.min - 1 ELSE 0,
                              IF r.inf THEN 0 ELSE r.max - 1, r.inf, r.lazy)
                  more == IF r.inf \/ r.max > 0
                            THEN MatchSeq(<<r.r, less>> \o rest, s, i, caps)
                            ELSE NoMatch
                  stop == IF r.min = 0 THEN MatchSeq(rest, s, i, caps)
                          ELSE NoMatch
              IN IF r.lazy
                   THEN (IF stop.ok THEN stop ELSE more)
                   ELSE (IF more.ok THEN more ELSE stop)
         [] r.t = "grp" ->
              MatchSeq(<<r.r, [t |-> "end", n |-> r.n, from |-> i]>> \o rest,
                       s, i, caps)
         [] r.t = "end" ->
              MatchSeq(rest, s, i, [caps EXCEPT ![r.n] = <<r.from, i>>])

RECURSIVE SearchFrom(_, _, _)
\* re.search(p, s) tried from position `from` on: the leftmost match.
\* p is [re, groups]; the result is [ok, start, end, caps].
SearchFrom(p, s, from) ==
  IF from > Len(s) + 1 THEN NoMatch
  ELSE LET m == MatchSeq(<<p.re>>, s, from, [n \in 1..p.groups |-> <<>>])
       IN IF m.ok THEN [ok |-> TRUE, start |-> from, end |-> m.end, caps |-> m.caps]
          ELSE SearchFrom(p, s, from + 1)

\* re.search(p, s)
Search(p, s) == SearchFrom(p, s, 1)

\* m.group(n) of a match m in s; <<>> stands for None too (both are falsy)
Group(m, s, n) ==
  IF m.caps[n] = <<>> THEN <<>> ELSE SubSeq(s, m.caps[n][1], m.caps[n][2] - 1)

\* m.group(0)
Group0(m, s) == SubSeq(s, m.start, m.end - 1)

RECURSIVE ReSub(_, _, _, _)
\* re.sub(p, repl, s) for a pattern that matches no empty string, read from
\* position i
ReSub(p, repl, s, i) ==
  IF i > Len(s) THEN <<>>
  ELSE LET m == MatchSeq(<<p.re>>, s, i, [n \in 1..p.groups |-> <<>>])
       IN IF m.ok THEN repl \o ReSub(p, repl, s, m.end)
          ELSE <<s[i]>> \o ReSub(p, repl, s, i + 1)

RECURSIVE ReSplit(_, _, _, _)
\* re.split(p, s) for a pattern that matches no empty string, read from
\* position i; cur is the part being read
ReSplit(p, s, i, cur) ==
  IF i > Len(s) THEN <<cur>>
  ELSE LET m == MatchSeq(<<p.re>>, s, i, [n \in 1..p.groups |-> <<>>])
       IN IF m.ok THEN <<cur>> \o ReSplit(p, s, m.end, <<>>)
          ELSE ReSplit(p, s, i + 1, Append(cur, s[i]))

(***************************************************************************)
(* The words of the source's patterns                                      *)
(***************************************************************************)
NotFound == <<"N","o","t"," ","F","o","u","n","d">>

MAUJA == <<"MA","sAU","JA","sAA">>
JILLA == <<"JA","sI","LA","VIRAMA","LA","sAA">>
THANA == <<"THA","sAA","NA","sAA">>
TAHASIL == <<"TA","HA","SA","sI","LA">>
KHATIYAN == <<"KHA","TA","sI","YYA","sAA","NA">>
KRAMIK == <<"KA","VIRAMA","RA","MA","sI","KA">>
PLOT == <<"PA","VIRAMA","LA","TTA">>
KISAM == <<"KA","sI","SA","MA">>
PADAR == <<"PA","DA","RA">>
HECTOR == <<"HA","sE","KA","VIRAMA","TTA","RA">>
PRAJAR == <<"PA","VIRAMA","RA","JA","sAA","RA">>
NAMA == <<"NA","sAA","MA">>
JAMIDARANKA == <<"JA","MA","sI","DA","sAA","RA","NGA","VIRAMA","KA">>
PI == <<"PA","sI">>

\* \s*
Ws == Star(In(Whitespace))
\* [:\-]?
Sep == Opt(In({":", "-"}))
\* ([0-9]+)
Digits1 == Grp(1, Plus(In(AsciiDigits)))
\* ([0-9]+\.[0-9]+)
Decimal1 ==
  Grp(1, Cat(<<Plus(In(AsciiDigits)), Lit(<<".">>), Plus(In(AsciiDigits))>>))
\* the number word, in its two spellings: NA (?:MA|MA VIRAMA) BA RA
Nambar ==
  Cat(<<Lit(<<"NA">>), Alt(Lit(<<"MA">>), Lit(<<"MA","VIRAMA">>)),
        Lit(<<"BA","RA">>)>>)

\* keyword \s*[:\-]?\s*([^\n,:]+): village, district, police station, tehsil
NamePattern(keyword) ==
  [re |-> Cat(<<Lit(keyword), Ws, Sep, Ws, Grp(1, Plus(NotIn({"\n", ",", ":"})))>>),
   groups |-> 1]

\* NumberPattern with the group of NamePattern, ([^\n,:]+)
NumberPatternAnyValue(keyword) ==
  [re |-> Cat(<<Lit(keyword), Ws, Nambar, Ws, Sep, Ws,
                Grp(1, Plus(NotIn({"\n", ",", ":"})))>>),
   groups |-> 1]

\* keyword \s* number-word \s*[:\-]?\s*([0-9]+)
NumberPattern(keyword) ==
  [re |-> Cat(<<Lit(keyword), Ws, Nambar, Ws, Sep, Ws, Digits1>>), groups |-> 1]

ThanaNoPatterns ==
  << NumberPattern(THANA),
     [re |-> Cat(<<Lit(THANA), Ws, Sep, LazyStar(AnyChar), Nambar, Ws, Sep, Ws,
                   Digits1>>),
      groups |-> 1] >>

\* the digit-run patterns of the police-station-number line scan
DigitRun2 == [re |-> Rep(In(AsciiDigits), 2, 0, TRUE, FALSE), groups |-> 0]
DigitRun1to5 ==
  [re |-> Grp(1, Rep(In(AsciiDigits), 1, 5, FALSE, FALSE)), groups |-> 1]

TehsilNoPatterns == << NumberPattern(TAHASIL) >>

KhataNoPatterns ==
  << [re |-> Cat(<<Lit(KHATIYAN), Opt(Cat(<<LazyStar(AnyChar), Lit(KRAMIK)>>)), Ws,
                   Nambar, Ws, Sep, Ws, Digits1>>),
      groups |-> 1],
     [re |-> Cat(<<Lit(KHATIYAN \o <<"RA">>), Ws, Lit(KRAMIK), Ws, Nambar, Ws, Sep,
                   Ws, Digits1>>),
      groups |-> 1] >>

PlotNoPatterns ==
  << NumberPattern(PLOT),
     [re |-> Cat(<<Lit(PLOT), Ws, Sep, Ws, Digits1>>), groups |-> 1] >>

LandTypePatterns ==
  << [re |-> Cat(<<Lit(KISAM), Ws, Sep, Ws, Grp(1, Plus(NotIn({"\n", ","})))>>),
      groups |-> 1],
     [re |-> Cat(<<Lit(KISAM), Ws, Lit(<<"vO">>), Ws,
                   Grp(1, Plus(NotIn({"\n", ","})))>>),
      groups |-> 1],
     [re |-> Grp(1, Cat(<<Lit(PADAR), Plus(NotIn({"\n", ","}))>>)), groups |-> 1] >>

\* (PADAR[^\d,\.]+)
LandTypeFallback ==
  [re |-> Grp(1, Cat(<<Lit(PADAR), Plus(NotIn(UnicodeDigits \cup {",", "."}))>>)),
   groups |-> 1]

AreaPatterns ==
  << [re |-> Cat(<<Decimal1, Ws, Opt(Alt(Lit(HECTOR), Lit(HECTOR)))>>), groups |-> 1],
     [re |-> Decimal1, groups |-> 1] >>

start_patterns ==
  << [re |-> Cat(<<Opt(Cat(<<Plus(In(UnicodeDigits)), Lit(<<")">>), Ws>>)),
                   Lit(PRAJAR), Ws, Lit(NAMA)>>),
      groups |-> 0],
     [re |-> Cat(<<Lit(JAMIDARANKA), Ws, Lit(NAMA)>>), groups |-> 0],
     [re |-> Cat(<<Lit(PRAJAR \o <<" ">> \o NAMA),
                   Star(In({",", ":"} \cup Whitespace))>>),
      groups |-> 0] >>

stop_keywords ==
  << <<"SA","VIRAMA","VA","TA","VIRAMA","TA","VIRAMA">>,
     <<"SA","VIRAMA","VA","TA","VIRAMA","VA">>,
     <<"KHA","JA","NNA","sAA">>,
     <<"SA","sE","SA","VIRAMA">>,
     <<"NA","sI","SA","VIRAMA","TA","sAA","RA">>,
     <<"DDA","NUKTA","sAA","KHA","LA">>,
     <<"2",")">>, <<"3",")">>, <<"4",")">>, <<"5",")">>,
     KHATIYAN, PLOT, KRAMIK, KISAM,
     <<"vA","NA","VIRAMA","YYA","sAA","NA","VIRAMA","YYA">>,
     <<"vA","NA","VIRAMA","TA","sI","MA">>,
     <<"RA","sAA","SSA","VIRAMA","TTA","VIRAMA","RA","sII","YYA">> >>

\* PI[:\.\-]?
SonOfPattern ==
  [re |-> Cat(<<Lit(PI), Opt(In({":", ".", "-"}))>>), groups |-> 0]
\* [0-9\[\]\(\)\-:]+
StrayPattern ==
  [re |-> Plus(In(AsciiDigits \cup {"[", "]", "(", ")", "-", ":"})), groups |-> 0]
\* [,\n;]+
NameSplitPattern == [re |-> Plus(In({",", "\n", ";"})), groups |-> 0]

(***************************************************************************)
(* Field extraction                                                        *)
(***************************************************************************)
RECURSIVE FirstGroup(_, _, _)
\* the first non-empty group of match m, from group n on; <<>> if none
FirstGroup(m, s, n) ==
  IF n > Len(m.caps) THEN <<>>
  ELSE IF Group(m, s, n) # <<>> THEN Group(m, s, n)
  ELSE FirstGroup(m, s, n + 1)

RECURSIVE find_value(_, _)
find_value(patterns, text) ==
  IF patterns = <<>> THEN NotFound
  ELSE LET m == Search(Head(patterns), text) IN
       IF m.ok
         THEN (IF FirstGroup(m, text, 1) # <<>>
                 THEN Strip(FirstGroup(m, text, 1))
                 ELSE Strip(Group0(m, text)))
         ELSE find_value(Tail(patterns), text)

\* val.split()[0] if val else "Not Found"
FirstToken(val) == IF val # <<>> THEN SplitWs(val, <<>>)[1] ELSE NotFound

\* get_value_from_lines without the test that the line holds the keyword
get_value_from_lines_AnyLine(keyword, lines) ==
  IF lines = <<>> THEN NotFound
  ELSE LET line == Head(lines)
           parts == SplitChar(line, ":", <<>>)
       IN IF Len(parts) > 1 THEN FirstToken(Strip(parts[2]))
          ELSE FirstToken(Strip(Replace(line, keyword, <<>>)))

RECURSIVE get_value_from_lines(_, _)
get_value_from_lines(keyword, lines) ==
  IF lines = <<>> THEN NotFound
  ELSE LET line == Head(lines) IN
       IF Contains(line, keyword)
         THEN LET parts == SplitChar(line, ":", <<>>) IN
              IF Len(parts) > 1 THEN FirstToken(Strip(parts[2]))
              ELSE FirstToken(Strip(Replace(line, keyword, <<>>)))
         ELSE get_value_from_lines(keyword, Tail(lines))

\* a name field: the pattern on the full text, else the line scan
NameField(keyword, full_text, lines) ==
  LET v == find_value(<<NamePattern(keyword)>>, full_text) IN
  IF v = NotFound THEN get_value_from_lines(keyword, lines) ELSE v

RECURSIVE ThanaNoLineScan(_)
\* the line fallback of the police-station number
ThanaNoLineScan(lines) ==
  IF lines = <<>> THEN NotFound
  ELSE LET l == Head(lines) IN
       IF Contains(l, THANA) /\ Search(DigitRun2, l).ok
         THEN LET m == Search(DigitRun1to5, l) IN
              IF m.ok THEN Group(m, l, 1) ELSE ThanaNoLineScan(Tail(lines))
         ELSE ThanaNoLineScan(Tail(lines))

thana_no_of(full_text, lines) ==
  LET v == find_value(ThanaNoPatterns, full_text) IN
  IF v = NotFound THEN ThanaNoLineScan(lines) ELSE v

land_type_of(full_text) ==
  LET v == find_value(LandTypePatterns, full_text) IN
  IF v = NotFound
    THEN LET m == Search(LandTypeFallback, full_text) IN
         IF m.ok THEN Strip(Group(m, full_text, 1)) ELSE v
    ELSE v

(***************************************************************************)
(* Owner names                                                             *)
(***************************************************************************)
RECURSIVE EarliestMatch(_, _, _)
\* the match that starts first among the matches of the patterns; best is the
\* earliest so far
EarliestMatch(patterns, full_text, best) ==
  IF patterns = <<>> THEN best
  ELSE LET m == Search(Head(patterns), full_text) IN
       EarliestMatch(Tail(patterns), full_text,
                     IF m.ok /\ (~best.ok \/ m.start < best.start) THEN m ELSE best)

\* StartIdx taking the earliest match of any pattern
StartIdxEarliest(patterns, full_text) ==
  LET m == EarliestMatch(patterns, full_text, NoMatch) IN
  IF m.ok THEN m.end ELSE 0

RECURSIVE StartIdx(_, _)
\* the loop over start_patterns: m.end() of the first pattern that matches,
\* 0 (the source's None) when none does
StartIdx(patterns, full_text) ==
  IF patterns = <<>> THEN 0
  ELSE LET m == Search(Head(patterns), full_text) IN
       IF m.ok THEN m.end ELSE StartIdx(Tail(patterns), full_text)

RECURSIVE CommaLine(_)
\* the first line with a comma and a character of the script; "" if none
CommaLine(lines) ==
  IF lines = <<>> THEN <<>>
  ELSE IF Count(Head(lines), ",") >= 1 /\ HasOdia(Head(lines)) THEN Head(lines)
  ELSE CommaLine(Tail(lines))

RECURSIVE EndIdx(_, _, _, _)
\* the loop over stop_keywords from start_idx; end_idx starts past the end
EndIdx(kws, full_text, start_idx, end_idx) ==
  IF kws = <<>> THEN end_idx
  ELSE LET k == Find(full_text, Head(kws), start_idx) IN
       EndIdx(Tail(kws), full_text, start_idx,
              IF k # 0 /\ k < end_idx THEN k ELSE end_idx)

extract_owner_names_block(full_text, lines) ==
  LET start_idx == StartIdx(start_patterns, full_text) IN
  IF start_idx = 0 THEN CommaLine(lines)
  ELSE LET end_idx == EndIdx(stop_keywords, full_text, start_idx, Len(full_text) + 1)
           block == Strip(SubSeq(full_text, start_idx, end_idx - 1))
           b1 == ReSub(SonOfPattern, <<",">>, block, 1)
           b2 == ReSub(StrayPattern, <<" ">>, b1, 1)
       IN Strip(b2)

RECURSIVE StripNonEmpty(_)
\* [p.strip() for p in parts if p.strip()]
StripNonEmpty(parts) ==
  IF parts = <<>> THEN <<>>
  ELSE (IF Strip(Head(parts)) # <<>> THEN <<Strip(Head(parts))>> ELSE <<>>)
         \o StripNonEmpty(Tail(parts))

RECURSIVE OdiaOnly(_)
\* [p for p in parts if self._odia_re.search(p)]
OdiaOnly(parts) ==
  IF parts = <<>> THEN <<>>
  ELSE (IF HasOdia(Head(parts)) THEN <<Head(parts)>> ELSE <<>>)
         \o OdiaOnly(Tail(parts))

owner_names_of(names_block) ==
  IF names_block # <<>>
    THEN OdiaOnly(StripNonEmpty(ReSplit(NameSplitPattern, names_block, 1, <<>>)))
    ELSE <<>>

RECURSIVE LatinAll(_)
\* [self.odia_to_latin(n) for n in owner_names_odia]
LatinAll(names) ==
  IF names = <<>> THEN <<>>
  ELSE <<odia_to_latin(Head(names))>> \o LatinAll(Tail(names))

(***************************************************************************)
(* Translation and result assembly                                         *)
(***************************************************************************)
\* A value that may be None: [none, v]
None == [none |-> TRUE, v |-> <<>>]
Some(v) == [none |-> FALSE, v |-> v]
\* the truth value of a str or None
Truthy(x) == ~x.none /\ x.v # <<>>

\* What one call of self.translator.translate does: it raises, or it returns
\* None, the empty string or a text.
TranslateOutcomes ==
  { [raises |-> TRUE, ret |-> None],
    [raises |-> FALSE, ret |-> None],
    [raises |-> FALSE, ret |-> Some(<<>>)],
    [raises |-> FALSE, ret |-> Some(<<"l","a","n","d">>)] }

\* translator is "GoogleTranslator" or "None"; outcome is what translate does
\* if it is called
translate_field(text, translator, outcome) ==
  IF text = <<>> \/ text = NotFound THEN Some(text)
  ELSE IF translator = "None" THEN Some(text)
  ELSE IF outcome.raises THEN Some(text)
  ELSE outcome.ret

\* [l.strip() for l in odia_text.splitlines() if l.strip()]
LinesOf(odia_text) == StripNonEmpty(SplitLines(odia_text, <<>>))
\* " ".join(lines)
FullTextOf(odia_text) == Join(<<" ">>, LinesOf(odia_text))

\* self.odia_to_latin(v) if v != "Not Found" else "Not Found"
LatinField(v) == IF v # NotFound THEN odia_to_latin(v) ELSE NotFound

\* the value of "Land Type (English)"
LandTypeEnglish(land_type, translator, outcome) ==
  IF land_type # NotFound
    THEN LET translated_lt == translate_field(land_type, translator, outcome) IN
         IF Truthy(translated_lt) THEN translated_lt.v
         ELSE odia_to_latin(land_type)
    ELSE NotFound

\* the two owner-name values
OwnerNamesOdia(owner_names_odia) ==
  IF owner_names_odia # <<>> THEN Join(<<",", " ">>, owner_names_odia) ELSE NotFound
OwnerNamesLatin(owner_names_odia) ==
  IF owner_names_odia # <<>> THEN Join(<<",", " ">>, LatinAll(owner_names_odia))
  ELSE NotFound

\* the fields extract_info reads from the text, before the result is built
extract_fields(odia_text) ==
  LET lines == LinesOf(odia_text)
      full_text == FullTextOf(odia_text)
  IN [ village_odia |-> NameField(MAUJA, full_text, lines),
       district_odia |-> NameField(JILLA, full_text, lines),
       thana_odia |-> NameField(THANA, full_text, lines),
       thana_no |-> thana_no_of(full_text, lines),
       tehsil_odia |-> NameField(TAHASIL, full_text, lines),
       tehsil_no |-> find_value(TehsilNoPatterns, full_text),
       khata_no |-> find_value(KhataNoPatterns, full_text),
       plot_no |-> find_value(PlotNoPatterns, full_text),
       land_type |-> land_type_of(full_text),
       area_odia |-> find_value(AreaPatterns, full_text),
       owner_names_odia |->
         owner_names_of(extract_owner_names_block(full_text, lines)) ]

\* the result dict built from the fields f
build_result(f, translator, outcome) ==
  ("Village Name (Odia)" :> f.village_odia)
  @@ ("Village Name (Latin)" :> LatinField(f.village_odia))
  @@ ("District (Odia)" :> f.district_odia)
  @@ ("District (Latin)" :> LatinField(f.district_odia))
  @@ ("Police Station (Thana) (Odia)" :> f.thana_odia)
  @@ ("Police Station (Thana) (Latin)" :> LatinField(f.thana_odia))
  @@ ("Police Station No." :> f.thana_no)
  @@ ("Tehsil (Odia)" :> f.tehsil_odia)
  @@ ("Tehsil (Latin)" :> LatinField(f.tehsil_odia))
  @@ ("Tehsil No." :> f.tehsil_no)
  @@ ("Khata No." :> f.khata_no)
  @@ ("Plot No." :> f.plot_no)
  @@ ("Land Type (Odia)" :> f.land_type)
  @@ ("Land Type (English)" :> LandTypeEnglish(f.land_type, translator, outcome))
  @@ ("Area (hectares)" :> IF f.area_odia # NotFound THEN f.area_odia ELSE NotFound)
  @@ ("Owner Names (Odia)" :> OwnerNamesOdia(f.owner_names_odia))
  @@ ("Owner Names (Latin)" :> OwnerNamesLatin(f.owner_names_odia))

\* extract_info leaving the translated key out when there is no translation
extract_info_KeyLost(odia_text, translator, outcome) ==
  LET f == extract_fields(odia_text)
      r == build_result(f, translator, outcome)
  IN IF f.land_type = NotFound
          \/ Truthy(translate_field(f.land_type, translator, outcome))
       THEN r
       ELSE [k \in DOMAIN r \ {"Land Type (English)"} |-> r[k]]

extract_info(odia_text, translator, outcome) ==
  build_result(extract_fields(odia_text), translator, outcome)

\* whether extract_info calls self.translator.translate on this text
TranslateCalled(odia_text, translator) ==
  LET land_type == land_type_of(FullTextOf(odia_text)) IN
  land_type # NotFound /\ land_type # <<>> /\ translator # "None"

NotCalled == [called |-> FALSE, raises |-> FALSE, ret |-> None]
Called(outcome) == [called |-> TRUE, raises |-> outcome.raises, ret |-> outcome.ret]

(***************************************************************************)
(* Inputs                                                                  *)
(***************************************************************************)
\* the most fragments of recognized text on an image
MaxFrags == 3
\* the most pages of a PDF
MaxPages == 2
\* the most characters of a string given to the transliterator
MaxLen == 4

RECURSIVE SeqsUpTo(_, _)
\* the sequences over S of length at most n
SeqsUpTo(S, n) ==
  IF n = 0 THEN {<<>>}
  ELSE LET shorter == SeqsUpTo(S, n - 1) IN
       shorter \cup {Append(q, x) : q \in {r \in shorter : Len(r) = n - 1}, x \in S}

\* The files whose recognized text is built from the fragments F: an image of
\* up to MaxFrags fragments, or a PDF of up to MaxPages pages, each one fragment
\* or blank. pages[k] is what OCR recognizes on page k (an image has one page).
FilesOver(F) ==
  {[pdf |-> FALSE, pages |-> <<Concat(q)>>] : q \in SeqsUpTo(F, MaxFrags)}
    \cup {[pdf |-> TRUE, pages |-> q] : q \in SeqsUpTo(F \cup {<<>>}, MaxPages)}

RAMA == <<"RA","sAA","MA">>
HARI == <<"HA","RA","sI">>
\* the number word as the documents spell it
NAMBAR == <<"NA","MA","VIRAMA","BA","RA">>

\* village, land type, area and loose names
Fragments ==
  { MAUJA, <<" ">>, <<",">>, KISAM \o <<":"," ">>, PADAR, <<"1",".","5">>, RAMA }

\* the numbered fields
NumberFragments ==
  { THANA \o <<" ">>, KHATIYAN \o <<" ">> \o NAMBAR, NAMBAR \o <<":">>,
    TAHASIL \o <<" ">>, PLOT, <<"7"," ">>, <<"1","2">>, <<"a","b">> }

\* the owner block
OwnerFragments ==
  { PRAJAR \o <<" ">> \o NAMA, JAMIDARANKA \o <<" ">> \o NAMA, <<" ">> \o RAMA,
    <<","," ">> \o HARI, <<" ">> \o PI \o <<":">>, <<" ">> \o KISAM, <<"1",")"," ">> }

\* the characters the transliterator is given strings of
TranslitAlphabet == {"KA", "vI", "vII", "sII", "VIRAMA", "oONE", "a", " "}

\* every character of the model
AllChars ==
  OdiaRange \cup AsciiDigits \cup Whitespace
    \cup {LowerLetters[k] : k \in DOMAIN LowerLetters}
    \cup {UpperLetters[k] : k \in DOMAIN UpperLetters}
    \cup {":", "-", ",", ".", ";", "(", ")", "[", "]"}

\* the strings given to the transliterator: the short strings over
\* TranslitAlphabet, and every consonant alone and before every character
TranslitInputs ==
  SeqsUpTo(TranslitAlphabet, MaxLen)
    \cup {<<c>> : c \in DOMAIN consonants}
    \cup {<<c, x>> : c \in DOMAIN consonants, x \in AllChars}

(***************************************************************************)
(* extract_ror_info as a state machine, and the transliterator on its own  *)
(***************************************************************************)
VARIABLES
  file,        \* the input file: [pdf, pages]
  pc,          \* where extract_ror_info is ("idle": it is not called)
  translator,  \* self.translator: "GoogleTranslator" or "None"
  i,           \* the page the OCR loop is at
  ocr_error,   \* whether the rasterizer or the OCR raised
  odia_text,   \* the text read so far, then the text extract_text returned
  translation, \* what self.translator.translate did, if it was called
  info,        \* what extract_info returned; NoInfo before it is called
  output,      \* what extract_ror_info returned; "" before it returns
  tl           \* a call of odia_to_latin and a second call on its result

vars ==
  <<file, pc, translator, i, ocr_error, odia_text, translation, info, output, tl>>

NoInfo == <<>>
Failure == "Could not extract text. Check file path and dependencies."
Formatted == "Document Translation & Extracted Information"
TlIdle == [pc |-> "idle", text |-> <<>>, once |-> <<>>, twice |-> <<>>]

InitOver(F) ==
  /\ file \in FilesOver(F)
  /\ pc = "call"
  /\ translator = "unset"
  /\ i = 1
  /\ ocr_error = FALSE
  /\ odia_text = <<>>
  /\ translation = NotCalled
  /\ info = NoInfo
  /\ output = ""
  /\ tl = TlIdle

Init == InitOver(Fragments)
InitNumbers == InitOver(NumberFragments)
InitOwners == InitOver(OwnerFragments)

\* RoRDocumentExtractor(): the translator is built, or building it raises
Construct ==
  /\ pc = "call"
  /\ translator' \in {"GoogleTranslator", "None"}
  /\ pc' = "extract_text"
  /\ UNCHANGED <<file, i, ocr_error, odia_text, translation, info, output, tl>>

\* one iteration of the loop over the pages of a PDF
OcrPage ==
  /\ pc = "extract_text"
  /\ file.pdf
  /\ i <= Len(file.pages)
  /\ odia_text' = odia_text \o file.pages[i] \o <<"\n">>
  /\ i' = i + 1
  /\ UNCHANGED <<file, pc, translator, ocr_error, translation, info, output, tl>>

\* the loop is over: return odia_text
OcrPdfDone ==
  /\ pc = "extract_text"
  /\ file.pdf
  /\ i > Len(file.pages)
  /\ pc' = "text"
  /\ UNCHANGED <<file, translator, i, ocr_error, odia_text, translation, info,
                 output, tl>>

\* an image: one call of the OCR
OcrImage ==
  /\ pc = "extract_text"
  /\ ~file.pdf
  /\ odia_text' = file.pages[1]
  /\ pc' = "text"
  /\ UNCHANGED <<file, translator, i, ocr_error, translation, info, output, tl>>

\* the rasterizer raises before the first page, or the OCR raises on a page:
\* extract_text returns ""
OcrError ==
  /\ pc = "extract_text"
  /\ i = 1 \/ i <= Len(file.pages)
  /\ ocr_error' = TRUE
  /\ odia_text' = <<>>
  /\ pc' = "text"
  /\ UNCHANGED <<file, translator, i, translation, info, output, tl>>

\* if not odia_text: return the failure message
NoText ==
  /\ pc = "text"
  /\ odia_text = <<>>
  /\ output' = Failure
  /\ pc' = "done"
  /\ UNCHANGED <<file, translator, i, ocr_error, odia_text, translation, info, tl>>

\* info = extractor.extract_info(odia_text)
ExtractInfo ==
  /\ pc = "text"
  /\ odia_text # <<>>
  /\ IF TranslateCalled(odia_text, translator)
       THEN \E outcome \in TranslateOutcomes :
              /\ translation' = Called(outcome)
              /\ info' = extract_info(odia_text, translator, outcome)
       ELSE /\ translation' = NotCalled
            /\ info' = extract_info(odia_text, translator, NotCalled)
  /\ pc' = "extracted"
  /\ UNCHANGED <<file, translator, i, ocr_error, odia_text, output, tl>>

\* return extractor.format_output(info)
FormatOutput ==
  /\ pc = "extracted"
  /\ output' = Formatted
  /\ pc' = "done"
  /\ UNCHANGED <<file, translator, i, ocr_error, odia_text, translation, info, tl>>

Next ==
  \/ Construct
  \/ OcrPage
  \/ OcrPdfDone
  \/ OcrImage
  \/ OcrError
  \/ NoText
  \/ ExtractInfo
  \/ FormatOutput

Spec == Init /\ [][Next]_vars
SpecNumbers == InitNumbers /\ [][Next]_vars
SpecOwners == InitOwners /\ [][Next]_vars

\* the transliterator alone: extract_ror_info is not called
InitTranslit ==
  /\ file = [pdf |-> FALSE, pages |-> <<<<>>>>]
  /\ pc = "idle"
  /\ translator = "unset"
  /\ i = 1
  /\ ocr_error = FALSE
  /\ odia_text = <<>>
  /\ translation = NotCalled
  /\ info = NoInfo
  /\ output = ""
  /\ \E text \in TranslitInputs :
       tl = [pc |-> "input", text |-> text, once |-> <<>>, twice |-> <<>>]

\* once = odia_to_latin(text)
Transliterate ==
  /\ tl.pc = "input"
  /\ tl' = [tl EXCEPT !.pc = "once", !.once = odia_to_latin(tl.text)]
  /\ UNCHANGED <<file, pc, translator, i, ocr_error, odia_text, translation, info,
                 output>>

\* twice = odia_to_latin(once)
TransliterateAgain ==
  /\ tl.pc = "once"
  /\ tl' = [tl EXCEPT !.pc = "twice", !.twice = odia_to_latin(tl.once)]
  /\ UNCHANGED <<file, pc, translator, i, ocr_error, odia_text, translation, info,
                 output>>

NextTranslit ==
  \/ Transliterate
  \/ TransliterateAgain

SpecTranslit == InitTranslit /\ [][NextTranslit]_vars

(***************************************************************************)
(* Properties                                                              *)
(***************************************************************************)
OutputKeys ==
  { "Village Name (Odia)", "Village Name (Latin)",
    "District (Odia)", "District (Latin)",
    "Police Station (Thana) (Odia)", "Police Station (Thana) (Latin)",
    "Police Station No.",
    "Tehsil (Odia)", "Tehsil (Latin)", "Tehsil No.",
    "Khata No.", "Plot No.",
    "Land Type (Odia)", "Land Type (English)",
    "Area (hectares)",
    "Owner Names (Odia)", "Owner Names (Latin)" }

NumericKeys == {"Police Station No.", "Tehsil No.", "Khata No.", "Plot No."}

\* extract_info has returned
HasInfo == pc = "extracted" \/ (pc = "done" /\ output = Formatted)

\* the translation collaborator failed or is unavailable
TranslationFailed ==
  translator = "None" \/ (translation.called /\ translation.raises)

\* C1: whatever the text and whatever the translator does, the mapping
\* extract_info returns has exactly the 17 keys of the output schema.
C1_FixedKeySet == HasInfo => DOMAIN info = OutputKeys

\* C1 witness: the translator raised and extract_ror_info still returned a
\* result with every key.
C1_Witness ==
  /\ pc = "done"
  /\ translation.called /\ translation.raises
  /\ Cardinality(DOMAIN info) = Cardinality(OutputKeys)

\* C2: every value of the returned mapping is a non-empty string; what did
\* not resolve is "Not Found", never the empty string.
C2_ValuesNonEmpty == HasInfo => \A k \in DOMAIN info : info[k] # <<>>

\* C3: when the land type was resolved and the translator failed or is
\* unavailable, "Land Type (English)" is the transliteration of the land type.
C3_FallbackIsTransliteration ==
  (HasInfo /\ info["Land Type (Odia)"] # NotFound /\ TranslationFailed)
    => info["Land Type (English)"] = odia_to_latin(info["Land Type (Odia)"])

\* the OCR recognized no text at all: it raised, or every page (the one page
\* of an image) came back empty
NoTextRecognized ==
  ocr_error \/ \A k \in 1..Len(file.pages) : file.pages[k] = <<>>

\* C4: when the OCR recognized no text at all, extract_ror_info returns the
\* failure message and extract_info is never called.
C4_NoTextShortCircuits ==
  (pc = "done" /\ NoTextRecognized) => (output = Failure /\ info = NoInfo)

\* C5: odia_to_latin is idempotent, and it returns a string with no character
\* of the script unchanged.
C5_Idempotent ==
  tl.pc = "twice"
    => /\ tl.twice = tl.once
       /\ ~HasOdia(tl.text) => tl.once = tl.text

\* s.lower()
LowerAll(s) == [k \in 1..Len(s) |-> Lower(s[k])]
\* whether s begins with pre
HasPrefix(s, pre) == StartsAt(s, pre, 1)

\* C6: a string that begins with a consonant c of base b transliterates, up
\* to capitalization, to a string that begins with b alone when the virama
\* follows c, with b and the sign's fragment when a vowel sign follows, and
\* with b and "a" otherwise; for the input c + virama the result is exactly b,
\* for c + sign exactly b + fragment (the sign is emitted once), and for c
\* alone exactly b + "a".
C6_ConsonantLookahead ==
  (tl.pc \in {"once", "twice"} /\ tl.text # <<>> /\ tl.text[1] \in DOMAIN consonants)
    => LET b == consonants[tl.text[1]]
           n == Len(tl.text)
           got == LowerAll(tl.once)
           expect == IF n >= 2 /\ tl.text[2] = "VIRAMA" THEN b
                     ELSE IF n >= 2 /\ tl.text[2] \in DOMAIN vowel_signs
                       THEN b \o vowel_signs[tl.text[2]]
                     ELSE b \o <<"a">>
           exact == n = 1 \/ (n = 2 /\ tl.text[2] \in DOMAIN vowel_signs \cup {"VIRAMA"})
       IN /\ HasPrefix(got, expect)
          /\ exact => got = expect

\* C6 witness: KHA + sign AU was transliterated to "Khau".
C6_Witness ==
  /\ tl.pc = "once"
  /\ tl.text = <<"KHA", "sAU">>
  /\ tl.once = <<"K","h","a","u">>

\* the marker words of the fields
FieldKeywords ==
  {MAUJA, JILLA, THANA, TAHASIL, KHATIYAN, PLOT, KISAM, PADAR, PRAJAR, JAMIDARANKA}
NoKeywords(t) == \A kw \in FieldKeywords : ~Contains(t, kw)
\* t holds digits "." digits
HasDecimal(t) ==
  \E a \in 1..Len(t) :
    /\ a + 2 <= Len(t)
    /\ t[a] \in AsciiDigits /\ t[a + 1] = "." /\ t[a + 2] \in AsciiDigits
\* a line of t holds a comma and a character of the script
HasCommaLine(t) ==
  \E a, b \in 1..Len(t) :
    /\ t[a] = "," /\ t[b] \in OdiaRange
    /\ \A k \in 1..Len(t) : (k > a /\ k < b) \/ (k > b /\ k < a) => t[k] # "\n"

\* C7 as stated: a text with none of the field keywords yields "Not Found"
\* for every key, Area and the owner names included.
C7_AllNotFound ==
  (HasInfo /\ NoKeywords(odia_text)) => \A k \in OutputKeys : info[k] = NotFound

\* C7 amended: a text with none of the field keywords yields "Not Found" for
\* every key but Area and the two owner-name keys; Area is "Not Found" exactly
\* when the text holds no decimal number, and the owner names exactly when no
\* line holds both a comma and a character of the script.
C7_NotFoundButAreaAndOwners ==
  (HasInfo /\ NoKeywords(odia_text))
    => /\ \A k \in OutputKeys \ {"Area (hectares)", "Owner Names (Odia)",
                                 "Owner Names (Latin)"} : info[k] = NotFound
       /\ info["Area (hectares)"] = NotFound <=> ~HasDecimal(odia_text)
       /\ info["Owner Names (Odia)"] = NotFound <=> ~HasCommaLine(odia_text)
       /\ info["Owner Names (Latin)"] = NotFound <=> ~HasCommaLine(odia_text)

\* C7 witness: a text with no keyword gave an area and owner names.
C7_Witness ==
  /\ HasInfo
  /\ NoKeywords(odia_text)
  /\ info["Area (hectares)"] = <<"1",".","5">>
  /\ info["Owner Names (Odia)"] # NotFound
  /\ info["Village Name (Odia)"] = NotFound

AllDigits(v) == v # <<>> /\ \A k \in 1..Len(v) : v[k] \in AsciiDigits

\* C8: each of the four numeric fields is "Not Found" or a non-empty string
\* of decimal digits; a text with no digit leaves all four "Not Found".
C8_NumericFieldsAreDigits ==
  HasInfo
    => /\ \A k \in NumericKeys : info[k] = NotFound \/ AllDigits(info[k])
       /\ (\A a \in 1..Len(odia_text) : odia_text[a] \notin AsciiDigits)
            => \A k \in NumericKeys : info[k] = NotFound

\* C8 witness: the khata label with digits gave the digits.
C8_Witness ==
  /\ HasInfo
  /\ Contains(odia_text, KHATIYAN)
  /\ info["Khata No."] = <<"1","2">>

\* word, whitespace, NAMA occurs in t from position a and ends before e
MarkerAt(word, t, a, e) ==
  /\ StartsAt(t, word, a)
  /\ e - Len(NAMA) >= a + Len(word)
  /\ StartsAt(t, NAMA, e - Len(NAMA))
  /\ \A k \in (a + Len(word))..(e - Len(NAMA) - 1) : t[k] \in Whitespace
\* the occurrences <<start, end>> of the markers that begin with the words
Markers(words, t) ==
  UNION { {<<a, e>> : e \in {e \in (a + 1)..(Len(t) + 1) :
                                \E w \in words : MarkerAt(w, t, a, e)}} :
          a \in {a \in 1..Len(t) : \E w \in words : StartsAt(t, w, a)} }
\* the end of the occurrence that starts first
EarliestEnd(O) == (CHOOSE o \in O : \A o2 \in O : o[1] <= o2[1])[2]

\* C9 as stated: the owner block begins right after the start marker that
\* occurs earliest in the text, whatever the order of the patterns.
C9_EarliestMarker ==
  LET t == FullTextOf(odia_text)
      O == Markers({PRAJAR, JAMIDARANKA}, t)
  IN (HasInfo /\ O # {}) => StartIdx(start_patterns, t) = EarliestEnd(O)

\* C9 amended: the owner block begins right after the leftmost match of the
\* first pattern, in the order of the list, that matches anywhere in the text:
\* a PRAJAR marker is taken before a JAMIDARANKA marker that occurs earlier.
C9_FirstListedMarker ==
  LET t == FullTextOf(odia_text)
      P == Markers({PRAJAR}, t)
      J == Markers({JAMIDARANKA}, t)
  IN HasInfo
       => StartIdx(start_patterns, t) =
            IF P # {} THEN EarliestEnd(P)
            ELSE IF J # {} THEN EarliestEnd(J)
            ELSE 0

\* C9 witness: both markers occur, the JAMIDARANKA one first, and the owner
\* names are those after the PRAJAR marker.
C9_Witness ==
  LET t == FullTextOf(odia_text)
      P == Markers({PRAJAR}, t)
      J == Markers({JAMIDARANKA}, t)
  IN /\ HasInfo
     /\ P # {} /\ J # {}
     /\ \E j \in J : \A p \in P : j[1] < p[1]
     /\ info["Owner Names (Odia)"] = RAMA

\* l[a..b] is a maximal run of digits of l
MaximalRun(l, a, b) ==
  /\ 1 <= a /\ a <= b /\ b <= Len(l)
  /\ \A k \in a..b : l[k] \in AsciiDigits
  /\ a = 1 \/ l[a - 1] \notin AsciiDigits
  /\ b = Len(l) \/ l[b + 1] \notin AsciiDigits

\* C10: when no primary pattern matches, the police-station number is a run
\* of two or more digits of the first line that holds the keyword and such a
\* run, whole and never a single digit, and "Not Found" when there is no such
\* line.
C10_LineScanTakesTheRun ==
  LET lines == LinesOf(odia_text)
      Q == {n \in 1..Len(lines) :
              /\ Contains(lines[n], THANA)
              /\ \E a \in 1..Len(lines[n]) :
                   /\ a + 1 <= Len(lines[n])
                   /\ lines[n][a] \in AsciiDigits
                   /\ lines[n][a + 1] \in AsciiDigits}
  IN (HasInfo /\ find_value(ThanaNoPatterns, FullTextOf(odia_text)) = NotFound)
       => IF Q = {} THEN info["Police Station No."] = NotFound
          ELSE LET l == lines[CHOOSE n \in Q : \A n2 \in Q : n <= n2] IN
               \E a, b \in 1..Len(l) :
                 /\ b > a
                 /\ MaximalRun(l, a, b)
                 /\ info["Police Station No."] = SubSeq(l, a, b)
====
